---- MODULE Spec2Model ----
(***************************************************************************)
(* Payment-request form generator (src/src/App.tsx and                     *)
(* src/components/PaymentForm.tsx): the two forms, the payee lookup table  *)
(* and its stored copy, the field cascade of handleFormChange, payee       *)
(* selection, copy, export-time payee recording, spreadsheet import, and   *)
(* the amount transcription digitUppercase.                                *)
(*                                                                         *)
(* A JavaScript string is a sequence of one-character strings; the empty   *)
(* string is << >>.  A Chinese character is written as one token named by  *)
(* its pinyin ("ling" is the character 零, "yuan" is 元, ...).              *)
(***************************************************************************)
EXTENDS Integers, Sequences, FiniteSets, TLC

VARIABLES formsData, payeeDb, storedPayeeDb, clock, last, wordsTyped, nOps,
          storedForms, timers, timer, phase, amount, words

\* The auto-save: the value under 'paymentFormsData', the pending timeouts,
\* the timeout the current effect will clear, and how far the mount has come.
saveVars == <<storedForms, timers, timer, phase>>

\* An amount text under transcription and its transcription.
duVars == <<amount, words>>

vars == <<formsData, payeeDb, storedPayeeDb, clock, last, wordsTyped, nOps,
          storedForms, timers, timer, phase, amount, words>>

\* The number of user operations explored from a mounted application.
MaxOps == 2

-----------------------------------------------------------------------------
(* Text *)

Empty == << >>

DigitChars == <<"0", "1", "2", "3", "4", "5", "6", "7", "8", "9">>

IsDigitChar(c) == \E d \in 1..10 : DigitChars[d] = c

DigitValue(c) == (CHOOSE d \in 1..10 : DigitChars[d] = c) - 1

IsWhiteSpace(c) == c = " "

RECURSIVE TrimStart(_)
TrimStart(s) ==
    IF s # Empty /\ IsWhiteSpace(Head(s)) THEN TrimStart(Tail(s)) ELSE s

RECURSIVE TrimEnd(_)
TrimEnd(s) ==
    IF s # Empty /\ IsWhiteSpace(s[Len(s)])
    THEN TrimEnd(SubSeq(s, 1, Len(s) - 1))
    ELSE s

\* String.prototype.trim
trim(s) == TrimEnd(TrimStart(s))

\* Number.prototype.toString of a non-negative integer
RECURSIVE toString(_)
toString(n) ==
    IF n < 10 THEN <<DigitChars[n + 1]>>
    ELSE toString(n \div 10) \o <<DigitChars[(n % 10) + 1]>>

-----------------------------------------------------------------------------
(* Numbers: parseFloat *)

\* A parsed number is NaN or [neg, int, frac]: its sign, its integer part and
\* the digits after the decimal point without trailing zeros.
NaN == [nan |-> TRUE]

isNaN(x) == x = NaN

\* The longest prefix of s made of decimal digits.
RECURSIVE DigitPrefix(_)
DigitPrefix(s) ==
    IF s # Empty /\ IsDigitChar(Head(s))
    THEN <<Head(s)>> \o DigitPrefix(Tail(s))
    ELSE Empty

RECURSIVE DigitsToNat(_)
DigitsToNat(ds) ==
    IF ds = Empty THEN 0
    ELSE 10 * DigitsToNat(SubSeq(ds, 1, Len(ds) - 1)) + DigitValue(ds[Len(ds)])

RECURSIVE DropTrailingZeros(_)
DropTrailingZeros(ds) ==
    IF ds # Empty /\ ds[Len(ds)] = 0
    THEN DropTrailingZeros(SubSeq(ds, 1, Len(ds) - 1))
    ELSE ds

\* parseFloat: leading white space is skipped, then the longest prefix that
\* is a decimal literal (sign, digits, point, digits) is read; text after it
\* is ignored, and NaN results when no digit was read.  The alphabet of the
\* inputs holds no exponent marker and does not spell Infinity.
parseFloat(value) ==
    LET s      == TrimStart(value)
        signed == s # Empty /\ Head(s) \in {"+", "-"}
        neg    == s # Empty /\ Head(s) = "-"
        body   == IF signed THEN Tail(s) ELSE s
        ip     == DigitPrefix(body)
        rest   == SubSeq(body, Len(ip) + 1, Len(body))
        fp     == IF rest # Empty /\ Head(rest) = "."
                  THEN DigitPrefix(Tail(rest))
                  ELSE Empty
    IN  IF ip = Empty /\ fp = Empty
        THEN NaN
        ELSE [neg  |-> neg,
              int  |-> DigitsToNat(ip),
              frac |-> DropTrailingZeros([k \in 1..Len(fp) |-> DigitValue(fp[k])])]

-----------------------------------------------------------------------------
(* digitUppercase *)

\* fraction = ['角', '分']
fraction == <<"jiao", "fen">>

\* digit = ['零', '壹', '贰', '叁', '肆', '伍', '陆', '柒', '捌', '玖']
digit == <<"ling", "yi", "er", "san", "si", "wu", "liu", "qi", "ba", "jiu">>

\* unit = [['元', '万', '亿'], ['', '拾', '佰', '仟']]
unit == << <<"yuan", "wan", "yi4">>, <<"", "shi", "bai", "qian">> >>

\* One character, or nothing for the empty unit name.
Chars(c) == IF c = "" THEN Empty ELSE <<c>>

\* Math.abs
abs(num) == [num EXCEPT !.neg = FALSE]

\* The amounts of the input alphabet whose binary double lies so far below
\* the decimal value that num * 10 * 10 comes out just under the exact
\* product: 1.13 * 10 * 10 is 112.99999999999999 and 2.01 * 10 * 10 is
\* 200.99999999999997 in IEEE-754 double arithmetic.  These are all such
\* amounts among AmountInputs and among the amounts written with the digits
\* 0, 1, 2 in up to three integer and four fraction digits.
RoundsBelow ==
    { [int |-> 1, frac |-> <<1, 3>>],
      [int |-> 2, frac |-> <<0, 1>>],
      [int |-> 2, frac |-> <<1, 1>>],
      [int |-> 10, frac |-> <<0, 2>>],
      [int |-> 10, frac |-> <<1, 2>>] }

\* Math.floor(num * 10 * Math.pow(10, i)) % 10 for i = 0, 1: the tenths digit,
\* and the hundredths digit, which comes out one lower for an amount whose
\* product lies just under the exact one.
ScaledDigit(num, i) ==
    LET d(k)    == IF k <= Len(num.frac) THEN num.frac[k] ELSE 0
        isBelow == [int |-> num.int, frac |-> num.frac] \in RoundsBelow
    IN  IF i = 0 THEN d(1)
        ELSE IF isBelow THEN (d(2) + 9) % 10
        ELSE d(2)

\* (digit[d] + fraction[i]).replace(/零./, '')
FractionTerm(d, i) ==
    IF d = 0 THEN Empty ELSE <<digit[d + 1], fraction[i + 1]>>

\* the loop of lines 17-19 and s = s || '整'
FractionPart(num) ==
    LET s == FractionTerm(ScaledDigit(num, 0), 0) \o FractionTerm(ScaledDigit(num, 1), 1)
    IN  IF s = Empty THEN <<"zheng">> ELSE s

\* Whether (零.)*零 matches p from position k up to the end of p.
RECURSIVE ZeroTailFrom(_, _)
ZeroTailFrom(p, k) ==
    IF k > Len(p) \/ p[k] # "ling" THEN FALSE
    ELSE IF k = Len(p) THEN TRUE
    ELSE k + 1 < Len(p) /\ ZeroTailFrom(p, k + 2)

\* Without the replacement: the trailing zero digits stay in p.
StripZeroTail_Keeps(p) == p

\* p.replace(/(零.)*零$/, '')
StripZeroTail(p) ==
    LET starts == { k \in 1..Len(p) : ZeroTailFrom(p, k) }
    IN  IF starts = {} THEN p
        ELSE LET k == CHOOSE m \in starts : \A o \in starts : m <= o
             IN  SubSeq(p, 1, k - 1)

\* the inner loop of lines 26-29: up to four digits of num, low to high
RECURSIVE GroupDigits(_, _, _)
GroupDigits(num, j, p) ==
    IF j < Len(unit[2]) /\ num > 0
    THEN GroupDigits(num \div 10, j + 1,
                     <<digit[(num % 10) + 1]>> \o Chars(unit[2][j + 1]) \o p)
    ELSE [p |-> p, num |-> num]

\* the outer loop of lines 24-31
RECURSIVE IntegerPart(_, _, _)
IntegerPart(num, i, s) ==
    IF i < Len(unit[1]) /\ num > 0
    THEN LET g  == GroupDigits(num, 0, Empty)
             p1 == StripZeroTail(g.p)
             p2 == IF p1 = Empty THEN <<"ling">> ELSE p1
         IN  IntegerPart(g.num, i + 1, p2 \o <<unit[1][i + 1]>> \o s)
    ELSE s

\* The length of the (greedy) match of (零.)*零元 that starts at position k of
\* s, or 0 when there is none.
RECURSIVE ZeroYuanFrom(_, _)
ZeroYuanFrom(s, k) ==
    IF k + 1 > Len(s) \/ s[k] # "ling" THEN 0
    ELSE LET n == ZeroYuanFrom(s, k + 2)
         IN  IF n > 0 THEN n + 2
             ELSE IF s[k + 1] = "yuan" THEN 2
             ELSE 0

\* s.replace(/(零.)*零元/, '元'): the leftmost match only
ReplaceZeroYuan(s) ==
    LET starts == { k \in 1..Len(s) : ZeroYuanFrom(s, k) > 0 }
    IN  IF starts = {} THEN s
        ELSE LET k == CHOOSE m \in starts : \A o \in starts : m <= o
                 n == ZeroYuanFrom(s, k)
             IN  SubSeq(s, 1, k - 1) \o <<"yuan">> \o SubSeq(s, k + n, Len(s))

\* With /零+/g in place of /(零.)+/g: the character after a zero marker
\* stays.
RECURSIVE CollapseZeros_OnlyMarkers(_, _)
CollapseZeros_OnlyMarkers(s, inRun) ==
    IF s = Empty THEN Empty
    ELSE IF Head(s) = "ling"
         THEN (IF inRun THEN Empty ELSE <<"ling">>)
              \o CollapseZeros_OnlyMarkers(Tail(s), TRUE)
         ELSE <<Head(s)>> \o CollapseZeros_OnlyMarkers(Tail(s), FALSE)

\* s.replace(/(零.)+/g, '零'): every maximal run, left to right
RECURSIVE CollapseZeros(_, _)
CollapseZeros(s, inRun) ==
    IF s = Empty THEN Empty
    ELSE IF Head(s) = "ling" /\ Len(s) >= 2
         THEN (IF inRun THEN Empty ELSE <<"ling">>)
              \o CollapseZeros(SubSeq(s, 3, Len(s)), TRUE)
         ELSE <<Head(s)>> \o CollapseZeros(Tail(s), FALSE)

\* Without the last replacement of line 33: /^整$/ stays as it is.
digitUppercase_KeepsBareZheng(n) ==
    LET num == abs(n)
        s0  == FractionPart(num)
        s1  == IntegerPart(num.int, 0, s0)
    IN  CollapseZeros(ReplaceZeroYuan(s1), FALSE)

digitUppercase(n) ==
    LET num == abs(n)
        s0  == FractionPart(num)
        s1  == IntegerPart(num.int, 0, s0)
        s2  == CollapseZeros(ReplaceZeroYuan(s1), FALSE)
    IN  IF s2 = <<"zheng">> THEN <<"ling", "yuan", "zheng">> ELSE s2

-----------------------------------------------------------------------------
(* Forms and lookup entries *)

\* keyof PaymentFormData
Keys ==
    {"dept", "year", "month", "day", "serial", "payee", "bankAccount",
     "bankName", "amountChinese", "reason", "attachments", "amountNumeric",
     "leader", "financeManager", "deptManager", "operator", "accountant",
     "bookkeeper", "reviewer", "cashier", "maker", "receiver"}

initialFormData == [k \in Keys |-> Empty]

\* dept is '精机主轴' and operator is '王宇俊'
getDefaults ==
    [initialFormData EXCEPT !.dept = <<"jing", "ji", "zhu", "zhou">>,
                            !.year = Empty,
                            !.month = Empty,
                            !.day = Empty,
                            !.operator = <<"wang", "yu", "jun">>]

\* formsData is indexed 0 and 1 as in the source.
Indexes == {0, 1}

Pair(a, b) == [i \in Indexes |-> IF i = 0 THEN a ELSE b]

\* A PayeeInfo is a record over a subset of these columns (a spreadsheet row
\* may lack a column): payee is 收款单位, bankAccount is 银行账号, bankName is
\* 开户行.
PayeeInfo(payee, bankAccount, bankName) ==
    [payee |-> payee, bankAccount |-> bankAccount, bankName |-> bankName]

\* p.column || ''
OrEmpty(p, column) == IF column \in DOMAIN p THEN p[column] ELSE Empty

\* p.column === text
ColumnIs(p, column, text) == column \in DOMAIN p /\ p[column] = text

\* The system clock: the dates on which operations happen, in order.
Dates ==
    << [year |-> 2025, month |-> 11, date |-> 31],
       [year |-> 2026, month |-> 0, date |-> 1] >>

\* new Date()
NewDate(c) == Dates[c]

getFullYear(now) == now.year

getMonth(now) == now.month

getDate(now) == now.date

-----------------------------------------------------------------------------
(* handleFormChange *)

\* amountCascade without the recomputation of the words for a numeric value
amountCascade_NoRecompute(newData, key, value) ==
    IF key = "amountNumeric" /\ value = Empty
    THEN [newData EXCEPT !.amountChinese = Empty]
    ELSE newData

\* amountCascade without the clearing of the words for an empty value
amountCascade_KeepsWordsOnEmpty(newData, key, value) ==
    IF key = "amountNumeric" /\ ~isNaN(parseFloat(value)) /\ value # Empty
    THEN [newData EXCEPT !.amountChinese = digitUppercase(parseFloat(value))]
    ELSE newData

\* lines 253-260
amountCascade(newData, key, value) ==
    IF key = "amountNumeric"
    THEN LET numVal == parseFloat(value)
         IN  IF ~isNaN(numVal) /\ value # Empty
             THEN [newData EXCEPT !.amountChinese = digitUppercase(numVal)]
             ELSE IF value = Empty
                  THEN [newData EXCEPT !.amountChinese = Empty]
                  ELSE newData
    ELSE newData

\* autofillDate with the month left 0-based
autofillDate_ZeroBasedMonth(newData, now) ==
    IF newData.year = Empty /\ newData.month = Empty /\ newData.day = Empty
    THEN [newData EXCEPT !.year = toString(getFullYear(now)),
                         !.month = toString(getMonth(now)),
                         !.day = toString(getDate(now))]
    ELSE newData

\* lines 266-271
autofillDate(newData, now) ==
    IF newData.year = Empty /\ newData.month = Empty /\ newData.day = Empty
    THEN [newData EXCEPT !.year = toString(getFullYear(now)),
                         !.month = toString(getMonth(now) + 1),
                         !.day = toString(getDate(now))]
    ELSE newData

\* clearPayeeDependents that forgets the attachment count
clearPayeeDependents_KeepsAttachments(newData) ==
    [newData EXCEPT !.bankAccount = Empty,
                    !.bankName = Empty,
                    !.year = Empty,
                    !.month = Empty,
                    !.day = Empty,
                    !.amountChinese = Empty,
                    !.amountNumeric = Empty,
                    !.reason = Empty]

\* clearPayeeDependents that resets the serial number as well
clearPayeeDependents_ClearsSerial(newData) ==
    [newData EXCEPT !.bankAccount = Empty,
                    !.bankName = Empty,
                    !.year = Empty,
                    !.month = Empty,
                    !.day = Empty,
                    !.amountChinese = Empty,
                    !.amountNumeric = Empty,
                    !.reason = Empty,
                    !.attachments = Empty,
                    !.serial = Empty]

\* lines 274-282
clearPayeeDependents(newData) ==
    [newData EXCEPT !.bankAccount = Empty,
                    !.bankName = Empty,
                    !.year = Empty,
                    !.month = Empty,
                    !.day = Empty,
                    !.amountChinese = Empty,
                    !.amountNumeric = Empty,
                    !.reason = Empty,
                    !.attachments = Empty]

\* payeeCascade that writes the date whether or not one is there
payeeCascade_AlwaysFills(newData, key, value, now) ==
    IF key = "payee"
    THEN IF value # Empty /\ trim(value) # Empty
         THEN [newData EXCEPT !.year = toString(getFullYear(now)),
                              !.month = toString(getMonth(now) + 1),
                              !.day = toString(getDate(now))]
         ELSE clearPayeeDependents(newData)
    ELSE newData

\* lines 263-284
payeeCascade(newData, key, value, now) ==
    IF key = "payee"
    THEN IF value # Empty /\ trim(value) # Empty
         THEN autofillDate(newData, now)
         ELSE clearPayeeDependents(newData)
    ELSE newData

\* handleFormChange that writes the changed form into both slots
handleFormChange_WritesBoth(prev, index, key, value, now) ==
    LET currentForm == prev[index]
        newData     == [currentForm EXCEPT ![key] = value]
        changed     == payeeCascade(amountCascade(newData, key, value), key, value, now)
    IN  [i \in DOMAIN prev |-> changed]

\* The updater handed to setFormsData, applied to the current forms.
handleFormChange(prev, index, key, value, now) ==
    LET currentForm == prev[index]
        newData     == [currentForm EXCEPT ![key] = value]
    IN  [prev EXCEPT ![index] =
            payeeCascade(amountCascade(newData, key, value), key, value, now)]

-----------------------------------------------------------------------------
(* handlePayeeSelect, copyToSecond *)

\* handlePayeeSelect that fills the date only where none is there
handlePayeeSelect_KeepsDate(prev, index, payee, now) ==
    [prev EXCEPT ![index] =
        autofillDate([prev[index] EXCEPT !.payee = OrEmpty(payee, "payee"),
                                         !.bankAccount = OrEmpty(payee, "bankAccount"),
                                         !.bankName = OrEmpty(payee, "bankName")],
                     now)]

\* lines 291-306
handlePayeeSelect(prev, index, payee, now) ==
    [prev EXCEPT ![index] =
        [prev[index] EXCEPT !.payee = OrEmpty(payee, "payee"),
                            !.bankAccount = OrEmpty(payee, "bankAccount"),
                            !.bankName = OrEmpty(payee, "bankName"),
                            !.year = toString(getFullYear(now)),
                            !.month = toString(getMonth(now) + 1),
                            !.day = toString(getDate(now))]]

\* setFormsData(prev => [prev[0], {...prev[0]}])
copyToSecond(prev) == Pair(prev[0], prev[0])

\* String.prototype.toLowerCase
toLowerCase(s) == [k \in 1..Len(s) |-> IF s[k] = "A" THEN "a" ELSE s[k]]

\* String.prototype.includes
includes(s, part) ==
    \E k \in 0..(Len(s) - Len(part)) : SubSeq(s, k + 1, k + Len(part)) = part

\* The options of the dropdown of a form whose payee text is typed: the
\* filter of handlePayeeChange and handlePayeeFocus.
filteredOptions(payeeOptions, typed) ==
    { k \in 1..Len(payeeOptions) :
        /\ OrEmpty(payeeOptions[k], "payee") # Empty
        /\ includes(toLowerCase(payeeOptions[k].payee), toLowerCase(typed)) }

-----------------------------------------------------------------------------
(* checkAndSavePayee, handleGenerateImage, handleFileUpload *)

\* The stored copy of the lookup table (localStorage key 'payeeDb'): Null
\* when the key is absent, else the table its JSON text denotes.
Null == [present |-> FALSE, table |-> << >>]

\* localStorage.setItem('payeeDb', JSON.stringify(db))
Stored(db) == [present |-> TRUE, table |-> db]

\* checkAndSavePayee that appends to the table as updated so far while it
\* still tests the table of the render (setPayeeDb(prev => [...prev, newPayee]))
checkAndSavePayee_AppendsToLatest(db, st, formData) ==
    LET payee       == formData.payee
        bankAccount == formData.bankAccount
        bankName    == formData.bankName
        exists      == \E k \in 1..Len(db) :
                          /\ ColumnIs(db[k], "payee", payee)
                          /\ ColumnIs(db[k], "bankAccount", bankAccount)
        newDb       == Append(st.payeeDb, PayeeInfo(payee, bankAccount, bankName))
    IN  IF payee # Empty /\ bankAccount # Empty /\ bankName # Empty /\ ~exists
        THEN [payeeDb |-> newDb, stored |-> Stored(newDb), saved |-> TRUE]
        ELSE [payeeDb |-> st.payeeDb, stored |-> st.stored, saved |-> FALSE]

\* checkAndSavePayee that stores the new entry alone (setPayeeDb([newPayee]))
checkAndSavePayee_DropsTable(db, st, formData) ==
    LET payee       == formData.payee
        bankAccount == formData.bankAccount
        bankName    == formData.bankName
        exists      == \E k \in 1..Len(db) :
                          /\ ColumnIs(db[k], "payee", payee)
                          /\ ColumnIs(db[k], "bankAccount", bankAccount)
        newDb       == <<PayeeInfo(payee, bankAccount, bankName)>>
    IN  IF payee # Empty /\ bankAccount # Empty /\ bankName # Empty /\ ~exists
        THEN [payeeDb |-> newDb, stored |-> Stored(newDb), saved |-> TRUE]
        ELSE [payeeDb |-> st.payeeDb, stored |-> st.stored, saved |-> FALSE]

\* One call of checkAndSavePayee.  db is the payeeDb of the render the
\* handler was created in; st is what setPayeeDb and localStorage.setItem
\* have been given so far.
checkAndSavePayee(db, st, formData) ==
    LET payee       == formData.payee
        bankAccount == formData.bankAccount
        bankName    == formData.bankName
        exists      == \E k \in 1..Len(db) :
                          /\ ColumnIs(db[k], "payee", payee)
                          /\ ColumnIs(db[k], "bankAccount", bankAccount)
        newDb       == Append(db, PayeeInfo(payee, bankAccount, bankName))
    IN  IF payee # Empty /\ bankAccount # Empty /\ bankName # Empty /\ ~exists
        THEN [payeeDb |-> newDb, stored |-> Stored(newDb), saved |-> TRUE]
        ELSE [payeeDb |-> st.payeeDb, stored |-> st.stored, saved |-> FALSE]

\* lines 116-119: both calls run in one render, so both read the same payeeDb
handleGenerateImage(db, stored, forms) ==
    LET st0 == [payeeDb |-> db, stored |-> stored, saved |-> FALSE]
        st1 == checkAndSavePayee(db, st0, forms[0])
    IN  checkAndSavePayee(db, st1, forms[1])

\* line 232
importAccepted(jsonData) == Len(jsonData) > 0 /\ "payee" \in DOMAIN jsonData[1]

-----------------------------------------------------------------------------
(* The auto-save effect *)

\* The value under the localStorage key 'paymentFormsData': absent, the JSON
\* text of a pair of forms, or JSON that is not an array of length 2.
NoForms == [kind |-> "absent", forms |-> Pair(initialFormData, initialFormData)]

\* localStorage.setItem('paymentFormsData', JSON.stringify(formsData))
SavedPair(forms) == [kind |-> "pair", forms |-> forms]

Malformed == [kind |-> "other", forms |-> Pair(initialFormData, initialFormData)]

\* The effect without its cleanup: the earlier timeout stays pending.
autoSaveEffect_NoCleanup(pending, own, forms) ==
    pending \cup {[id |-> own + 1, forms |-> forms]}

\* One run of the effect of lines 78-86 for a render with these forms: the
\* cleanup of the run before clears its timeout (own), then a timeout that
\* will save these forms is set; timeout ids count up.
autoSaveEffect(pending, own, forms) ==
    {t \in pending : t.id # own} \cup {[id |-> own + 1, forms |-> forms]}

-----------------------------------------------------------------------------
(* What the user types, what the storage holds at mount, what is imported *)

PayeeInputs == {Empty, <<" ">>, <<"a">>, <<"b">>}

AmountInputs ==
    {Empty, <<"0">>, <<"1", "2">>, <<"1", "0", "0", "5">>, <<"0", ".", "5">>,
     <<"2", ".", "0", "1">>, <<"-", "3">>, <<"1", "2", "a">>, <<"a">>}

WordsInputs == {Empty, <<"yi", "yuan", "zheng">>}

InputsFor(key) ==
    CASE key = "payee" -> PayeeInputs
      [] key = "bankAccount" -> {Empty, <<"1">>, <<"2">>}
      [] key = "bankName" -> {Empty, <<"k">>}
      [] key = "amountNumeric" -> AmountInputs
      [] key = "amountChinese" -> WordsInputs
      [] key \in {"year", "month", "day"} -> {Empty, <<"9">>}
      [] OTHER -> {<<"x">>}

\* A form as an earlier session saved it, filled in on 2025-12-31.
FormA ==
    [k \in Keys |->
        CASE k = "dept" -> getDefaults.dept
          [] k = "operator" -> getDefaults.operator
          [] k = "year" -> <<"2", "0", "2", "5">>
          [] k = "month" -> <<"1", "2">>
          [] k = "day" -> <<"3", "1">>
          [] k = "payee" -> <<"a">>
          [] k = "bankAccount" -> <<"1">>
          [] k = "bankName" -> <<"k">>
          [] k = "amountNumeric" -> <<"1", "2">>
          [] k = "amountChinese" -> <<"yi", "shi", "er", "yuan", "zheng">>
          [] OTHER -> <<"s">>]

\* A saved form with another payee and nothing else filled in.
FormB ==
    [getDefaults EXCEPT !.payee = <<"b">>,
                        !.bankAccount = <<"2">>,
                        !.bankName = <<"k">>]

\* The forms the mount effect finds under 'paymentFormsData' (the defaults
\* stand for an absent or malformed value).
SavedFormsData == {Pair(getDefaults, getDefaults), Pair(FormA, FormB)}

\* The lookup tables the mount effect finds under 'payeeDb'.
SavedPayeeDbs == {Null, Stored(<<PayeeInfo(<<"b">>, <<"2">>, <<"k">>)>>)}

\* The rows XLSX.utils.sheet_to_json returns for the chosen file: no row, a
\* sheet without the payee column, a sheet whose row lacks the bank name, and
\* a sheet that lists one payee twice.
Sheets ==
    { << >>,
      << [bankAccount |-> <<"1">>, bankName |-> <<"k">>] >>,
      << [payee |-> <<"A">>, bankAccount |-> <<"1">>] >>,
      << PayeeInfo(<<"a">>, <<"1">>, <<"k">>), PayeeInfo(<<"a">>, <<"1">>, <<"k">>) >> }

-----------------------------------------------------------------------------
(* The state machine *)

NoEntry == [none |-> TRUE]

\* last records the operation that produced the state and what it started
\* from, and wordsTyped whether the amount-in-words input has been typed into
\* since mount; both are history only and no operation reads them.
Record(op, index, key, value, entry) ==
    [op |-> op, index |-> index, key |-> key, value |-> value, entry |-> entry,
     before |-> formsData, dbBefore |-> payeeDb, storedBefore |-> storedPayeeDb,
     now |-> NewDate(clock)]

\* The state once the mount effect (lines 58-75) has run.
Init ==
    /\ formsData \in SavedFormsData
    /\ storedPayeeDb \in SavedPayeeDbs
    /\ payeeDb = IF storedPayeeDb.present THEN storedPayeeDb.table ELSE << >>
    /\ clock = 1
    /\ nOps = 0
    /\ wordsTyped = FALSE
    /\ last = [op |-> "mount", index |-> 0, key |-> "", value |-> Empty,
               entry |-> NoEntry, before |-> formsData, dbBefore |-> payeeDb,
               storedBefore |-> storedPayeeDb, now |-> NewDate(1)]
    /\ storedForms = IF formsData = Pair(getDefaults, getDefaults)
                     THEN NoForms
                     ELSE SavedPair(formsData)
    /\ timer = IF storedForms.kind = "pair" THEN 2 ELSE 1
    /\ timers = {[id |-> timer, forms |-> formsData]}
    /\ phase = "ready"
    /\ amount = Empty
    /\ words = Empty

\* setFormsData was given new forms in an event handler: the render and the
\* auto-save effect of the new forms run before the handler's event ends.
FormsChanged ==
    /\ timers' = autoSaveEffect(timers, timer, formsData')
    /\ timer' = timer + 1
    /\ UNCHANGED <<storedForms, phase, duVars>>

\* An input of form index changes: onChange(key, value).
HandleFormChange(index, key, value) ==
    /\ nOps < MaxOps
    /\ phase = "ready"
    /\ formsData' = handleFormChange(formsData, index, key, value, NewDate(clock))
    /\ FormsChanged
    /\ last' = Record("change", index, key, value, NoEntry)
    /\ wordsTyped' = (wordsTyped \/ key = "amountChinese")
    /\ nOps' = nOps + 1
    /\ UNCHANGED <<payeeDb, storedPayeeDb, clock>>

\* The clear button of the payee row, shown while the payee is not empty.
ClearButton(index) ==
    /\ formsData[index].payee # Empty
    /\ HandleFormChange(index, "payee", Empty)

\* An option of the dropdown of form index is clicked.
HandlePayeeSelect(index, k) ==
    /\ nOps < MaxOps
    /\ formsData[index].payee # Empty
    /\ k \in filteredOptions(payeeDb, formsData[index].payee)
    /\ phase = "ready"
    /\ formsData' = handlePayeeSelect(formsData, index, payeeDb[k], NewDate(clock))
    /\ FormsChanged
    /\ last' = Record("select", index, "", Empty, payeeDb[k])
    /\ nOps' = nOps + 1
    /\ UNCHANGED <<payeeDb, storedPayeeDb, clock, wordsTyped>>

\* The copy button, confirmed in window.confirm.
CopyToSecond ==
    /\ nOps < MaxOps
    /\ phase = "ready"
    /\ formsData' = copyToSecond(formsData)
    /\ FormsChanged
    /\ last' = Record("copy", 0, "", Empty, NoEntry)
    /\ nOps' = nOps + 1
    /\ UNCHANGED <<payeeDb, storedPayeeDb, clock, wordsTyped>>

\* The export button: the payee check of both forms (the capture of the
\* image and the status text are not part of the state).
HandleGenerateImage ==
    /\ nOps < MaxOps
    /\ LET st == handleGenerateImage(payeeDb, storedPayeeDb, formsData)
       IN  /\ payeeDb' = st.payeeDb
           /\ storedPayeeDb' = st.stored
    /\ last' = Record("export", 0, "", Empty, NoEntry)
    /\ nOps' = nOps + 1
    /\ phase = "ready"
    /\ UNCHANGED <<formsData, clock, wordsTyped, saveVars, duVars>>

\* A spreadsheet is chosen and read.
HandleFileUpload(jsonData) ==
    /\ nOps < MaxOps
    /\ IF importAccepted(jsonData)
       THEN payeeDb' = jsonData /\ storedPayeeDb' = Stored(jsonData)
       ELSE UNCHANGED <<payeeDb, storedPayeeDb>>
    /\ last' = Record("import", 0, "", Empty, [sheet |-> jsonData])
    /\ nOps' = nOps + 1
    /\ phase = "ready"
    /\ UNCHANGED <<formsData, clock, wordsTyped, saveVars, duVars>>

\* Midnight passes.
Tick ==
    /\ clock < Len(Dates)
    /\ clock' = clock + 1
    /\ UNCHANGED <<formsData, payeeDb, storedPayeeDb, last, wordsTyped, nOps,
                   saveVars, duVars>>

Next ==
    \/ \E index \in Indexes, key \in Keys :
          \E value \in InputsFor(key) : HandleFormChange(index, key, value)
    \/ \E index \in Indexes : ClearButton(index)
    \/ \E index \in Indexes : \E k \in 1..Len(payeeDb) : HandlePayeeSelect(index, k)
    \/ CopyToSecond
    \/ HandleGenerateImage
    \/ \E jsonData \in Sheets : HandleFileUpload(jsonData)
    \/ Tick

Spec == Init /\ [][Next]_vars

-----------------------------------------------------------------------------
(* digitUppercase on its own: an amount text is typed, character by
   character, and every text typed so far is parsed and transcribed *)

\* The longest integer part, the longest fraction, and the longest integer
\* part that gets a fraction.
MaxDigits == 10
MaxFraction == 3
MaxFractionInt == 2

\* The digits that are typed.
TypedDigits == {"0", "1", "2"}

\* The text has a decimal point.
HasPoint(text) == \E k \in 1..Len(text) : text[k] = "."

\* The digits of the text before its decimal point.
IntegerDigits(text) == DigitPrefix(text)

\* The number of digits of the text after its decimal point.
FractionLen(text) == Len(text) - Len(IntegerDigits(text)) - 1

\* The integer part is below 2^31.
Fits(text) ==
    \/ Len(IntegerDigits(text)) < 10
    \/ Len(IntegerDigits(text)) = 10 /\ Head(text) = "1"

\* The texts that are typed: an integer part without a leading zero, then
\* possibly a decimal point and fraction digits.
Typeable(text, c) ==
    IF c = "."
    THEN text # Empty /\ ~HasPoint(text) /\ Len(text) <= MaxFractionInt
    ELSE IF HasPoint(text)
         THEN FractionLen(text) < MaxFraction
         ELSE /\ text # <<"0">>
              /\ Len(text) < MaxDigits
              /\ Fits(Append(text, c))

InitDU ==
    /\ formsData = Pair(getDefaults, getDefaults)
    /\ storedPayeeDb = Null
    /\ payeeDb = << >>
    /\ clock = 1
    /\ nOps = 0
    /\ wordsTyped = FALSE
    /\ last = [op |-> "mount", index |-> 0, key |-> "", value |-> Empty,
               entry |-> NoEntry, before |-> formsData, dbBefore |-> payeeDb,
               storedBefore |-> storedPayeeDb, now |-> NewDate(1)]
    /\ storedForms = NoForms
    /\ timer = 1
    /\ timers = {[id |-> timer, forms |-> formsData]}
    /\ phase = "ready"
    /\ amount = Empty
    /\ words = Empty

\* One more character of the amount: digitUppercase(parseFloat(text)), as
\* line 256 calls it.
TypeAmount(c) ==
    /\ Typeable(amount, c)
    /\ amount' = Append(amount, c)
    /\ words' = digitUppercase(parseFloat(amount'))
    /\ UNCHANGED <<formsData, payeeDb, storedPayeeDb, clock, last, wordsTyped,
                   nOps, saveVars>>

NextDU == \E c \in TypedDigits \cup {"."} : TypeAmount(c)

SpecDU == InitDU /\ [][NextDU]_vars

-----------------------------------------------------------------------------
(* The mount and the auto-save, step by step: the first render, the two
   effects of the mount, the render of the loaded forms, edits, and the
   timeouts *)

\* What the key 'paymentFormsData' holds when the page is opened.
StoredAtMount == {NoForms, Malformed, SavedPair(Pair(FormA, FormB))}

\* The state of the first render, before its effects.
InitSave ==
    /\ formsData = Pair(getDefaults, getDefaults)
    /\ payeeDb = << >>
    /\ storedPayeeDb \in SavedPayeeDbs
    /\ storedForms \in StoredAtMount
    /\ clock = 1
    /\ nOps = 0
    /\ wordsTyped = FALSE
    /\ last = [op |-> "mount", index |-> 0, key |-> "", value |-> Empty,
               entry |-> NoEntry, before |-> formsData, dbBefore |-> payeeDb,
               storedBefore |-> storedPayeeDb, now |-> NewDate(1)]
    /\ timers = {}
    /\ timer = 0
    /\ phase = "initial"
    /\ amount = Empty
    /\ words = Empty

\* The effects of the first render, in the order of the code: the load
\* (lines 58-75), then the auto-save effect with the forms of the first
\* render. Loaded forms are rendered, and the effect run for them, next.
MountEffects ==
    /\ phase = "initial"
    /\ formsData' = IF storedForms.kind = "pair" THEN storedForms.forms ELSE formsData
    /\ payeeDb' = IF storedPayeeDb.present THEN storedPayeeDb.table ELSE payeeDb
    /\ timers' = autoSaveEffect(timers, timer, formsData)
    /\ timer' = timer + 1
    /\ phase' = IF storedForms.kind = "pair" THEN "stale" ELSE "ready"
    /\ UNCHANGED <<storedPayeeDb, storedForms, clock, last, wordsTyped, nOps, duVars>>

\* The render of the loaded forms and its auto-save effect.
Rerender ==
    /\ phase = "stale"
    /\ timers' = autoSaveEffect(timers, timer, formsData)
    /\ timer' = timer + 1
    /\ phase' = "ready"
    /\ UNCHANGED <<formsData, payeeDb, storedPayeeDb, storedForms, clock, last,
                   wordsTyped, nOps, duVars>>

\* A pending timeout runs, 800 ms after it was set: the forms of its render
\* are stored. The render of the loaded forms comes before any timeout.
TimerFires(t) ==
    /\ phase = "ready"
    /\ t \in timers
    /\ storedForms' = SavedPair(t.forms)
    /\ timers' = timers \ {t}
    /\ UNCHANGED <<formsData, payeeDb, storedPayeeDb, clock, last, wordsTyped,
                   nOps, timer, phase, duVars>>

NextSave ==
    \/ MountEffects
    \/ Rerender
    \/ \E t \in timers : TimerFires(t)
    \/ \E index \in Indexes : \E value \in PayeeInputs :
          HandleFormChange(index, "payee", value)
    \/ CopyToSecond

\* Effects run once their render is committed, and a timeout that is not
\* cleared runs.
SpecSave ==
    /\ InitSave
    /\ [][NextSave]_vars
    /\ WF_vars(MountEffects)
    /\ WF_vars(Rerender)
    /\ WF_vars(\E t \in timers : TimerFires(t))

-----------------------------------------------------------------------------
(* Properties *)

\* The form the last operation acted on, after and before it.
After == formsData[last.index]

Before == last.before[last.index]

\* The table holds how many entries with this (payee, bank account) pair.
Count(table, payee, bankAccount) ==
    Cardinality({ k \in 1..Len(table) :
                    /\ "payee" \in DOMAIN table[k]
                    /\ "bankAccount" \in DOMAIN table[k]
                    /\ table[k].payee = payee
                    /\ table[k].bankAccount = bankAccount })

Complete(f) == f.payee # Empty /\ f.bankAccount # Empty /\ f.bankName # Empty

\* The calendar date as the three decimal strings of a form.
YearText(now) == toString(now.year)

MonthText(now) == toString(now.month + 1)

DayText(now) == toString(now.date)

DateKeys == {"year", "month", "day"}

ClearedKeys ==
    {"bankAccount", "bankName", "year", "month", "day", "amountChinese",
     "amountNumeric", "reason", "attachments"}

KeptKeys ==
    {"dept", "serial", "leader", "financeManager", "deptManager", "operator",
     "accountant", "bookkeeper", "reviewer", "cashier", "maker", "receiver"}

PayeeCleared == last.op = "change" /\ last.key = "payee" /\ last.value = Empty

\* C1: after an export, each form whose payee, bank account and bank name are
\* all non-empty has its (payee, bank account) pair in the lookup table and
\* in the stored copy of the table.
C1_ExportRecordsEveryPayee ==
    last.op = "export" =>
        \A i \in Indexes :
            Complete(formsData[i]) =>
                /\ Count(payeeDb, formsData[i].payee, formsData[i].bankAccount) >= 1
                /\ storedPayeeDb.present
                /\ Count(storedPayeeDb.table, formsData[i].payee,
                         formsData[i].bankAccount) >= 1

\* The amount-in-words of a form is the transcription of its amount-in-digits
\* whenever the digits are a non-empty text that parses as a number.
WordsFollowDigits(f) ==
    (f.amountNumeric # Empty /\ ~isNaN(parseFloat(f.amountNumeric)))
        => f.amountChinese = digitUppercase(parseFloat(f.amountNumeric))

\* C2 as stated: in every reachable state, whatever the operations were
\* (edits of the amount-in-words field included), the words of each form
\* whose digits are a valid non-empty number are digitUppercase of the digits.
C2_WordsAlwaysFollowDigits == \A i \in Indexes : WordsFollowDigits(formsData[i])

\* C2 amended: the same, in every state reached without a direct edit of the
\* amount-in-words field.
C2_WordsFollowDigitsUnlessTyped ==
    ~wordsTyped => \A i \in Indexes : WordsFollowDigits(formsData[i])

\* Digits were changed to a number and the words were recomputed from them.
C2_Witness ==
    /\ ~wordsTyped
    /\ last.op = "change" /\ last.key = "amountNumeric"
    /\ After.amountNumeric = <<"1", "0", "0", "5">>
    /\ After.amountChinese = <<"yi", "qian", "ling", "wu", "yuan", "zheng">>
    /\ Before.amountChinese = <<"yi", "shi", "er", "yuan", "zheng">>

\* C3: handleFormChange(index, 'payee', '') yields a form whose payee, bank
\* account, bank name, year, month, day, amount-in-words, amount-in-digits,
\* reason and attachment count are all the empty string.
C3_ClearingPayeeClearsDependents ==
    PayeeCleared => \A k \in ClearedKeys \cup {"payee"} : After[k] = Empty

\* The payee of a form with every dependent field filled in was cleared.
C3_Witness ==
    /\ PayeeCleared
    /\ \A k \in ClearedKeys \cup {"payee"} : Before[k] # Empty /\ After[k] = Empty

\* C4: clearing the payee leaves department, serial number and every
\* signature field of the form unchanged.
C4_ClearingPayeeKeepsSignatures ==
    PayeeCleared => \A k \in KeptKeys : After[k] = Before[k]

\* The payee of a form with department, serial and signatures filled in was
\* cleared.
C4_Witness ==
    /\ PayeeCleared
    /\ Before.payee # Empty /\ After.reason = Empty /\ Before.reason # Empty
    /\ \A k \in KeptKeys : Before[k] # Empty /\ After[k] = Before[k]

PayeeSet == last.op = "change" /\ last.key = "payee" /\ last.value # Empty

HasVisibleCharacter(s) == \E k \in 1..Len(s) : s[k] # " "

DatesEmpty(f) == \A k \in DateKeys : f[k] = Empty

DatesAreToday(f) ==
    /\ f.year = YearText(last.now)
    /\ f.month = MonthText(last.now)
    /\ f.day = DayText(last.now)

\* C5 as stated: a payee change to any non-empty string (white space only
\* included) on a form whose payee and date fields are empty sets year, month
\* and day to the current date (month 1-based); when a date field was
\* non-empty, the change modifies none of the three.
C5_AnyNonEmptyPayeeFillsDate ==
    PayeeSet =>
        /\ (Before.payee = Empty /\ DatesEmpty(Before)) => DatesAreToday(After)
        /\ ~DatesEmpty(Before) => \A k \in DateKeys : After[k] = Before[k]

\* C5 amended: the same for a payee change to a string with at least one
\* character that is not white space.
C5_VisiblePayeeFillsDate ==
    (PayeeSet /\ HasVisibleCharacter(last.value)) =>
        /\ (Before.payee = Empty /\ DatesEmpty(Before)) => DatesAreToday(After)
        /\ ~DatesEmpty(Before) => \A k \in DateKeys : After[k] = Before[k]

\* A payee was typed into a form without payee and date on 2026-01-01, and
\* the date was filled in.
C5_Witness ==
    /\ PayeeSet /\ HasVisibleCharacter(last.value)
    /\ Before.payee = Empty /\ DatesEmpty(Before)
    /\ After.year = <<"2", "0", "2", "6">>
    /\ After.month = <<"1">>
    /\ After.day = <<"1">>

\* C6: selecting a lookup entry sets payee, bank account and bank name of the
\* form to the entry's values (a column the entry lacks reads as the empty
\* string), sets year, month and day to the current date whatever they held,
\* and leaves every other field of the form unchanged.
C6_SelectOverwritesPayeeAndDate ==
    last.op = "select" =>
        /\ \A c \in {"payee", "bankAccount", "bankName"} :
              After[c] = IF c \in DOMAIN last.entry THEN last.entry[c] ELSE Empty
        /\ DatesAreToday(After)
        /\ \A k \in Keys \ ({"payee", "bankAccount", "bankName"} \cup DateKeys) :
              After[k] = Before[k]

\* An entry was selected on a form that carried another date and other bank
\* details.
C6_Witness ==
    /\ last.op = "select"
    /\ ~DatesEmpty(Before) /\ Before.year # After.year
    /\ Before.bankName # After.bankName
    /\ After.payee = last.entry.payee /\ After.payee # Before.payee
    /\ After.reason # Empty

DigitsChanged == last.op = "change" /\ last.key = "amountNumeric"

\* C7: a change of amount-in-digits to a value that parses as a number makes
\* the words digitUppercase of that number, a change to the empty string makes
\* the words empty, and no field other than the two amounts is touched.
C7_DigitsChangeRecomputesWords ==
    DigitsChanged =>
        /\ After.amountNumeric = last.value
        /\ ~isNaN(parseFloat(last.value))
              => After.amountChinese = digitUppercase(parseFloat(last.value))
        /\ last.value = Empty => After.amountChinese = Empty
        /\ \A k \in Keys \ {"amountNumeric", "amountChinese"} : After[k] = Before[k]

\* The digits of a form with words were emptied, and the words went with them.
C7_Witness ==
    /\ DigitsChanged
    /\ last.value = Empty
    /\ Before.amountChinese # Empty /\ After.amountChinese = Empty
    /\ After.payee # Empty

\* Number(text) is a number: around optional white space, an optional sign
\* and a decimal literal, and nothing else.
IsNumber(text) ==
    LET s    == trim(text)
        body == IF s # Empty /\ Head(s) \in {"+", "-"} THEN Tail(s) ELSE s
        ip   == DigitPrefix(body)
        rest == SubSeq(body, Len(ip) + 1, Len(body))
        fp   == IF rest # Empty /\ Head(rest) = "." THEN DigitPrefix(Tail(rest)) ELSE Empty
    IN  /\ ip # Empty \/ fp # Empty
        /\ rest = Empty \/ rest = <<".">> \o fp

\* C8: a change of amount-in-digits to a non-empty text that is not wholly
\* numeric produces no transcription: the words are as before, or blank.
C8_NonNumericDigitsLeaveWords ==
    (DigitsChanged /\ last.value # Empty /\ ~IsNumber(last.value)) =>
        After.amountChinese \in {Before.amountChinese, Empty}

\* C9: applying the field change that was just applied once more, on either
\* date of the clock, yields the same forms.
C9_FormChangeIdempotent ==
    last.op = "change" =>
        \A c \in 1..Len(Dates) :
            handleFormChange(formsData, last.index, last.key, last.value, NewDate(c))
                = formsData

\* A payee was typed into a form without date on the first date, the date
\* was filled in, and the clock has moved on since.
C9_Witness ==
    /\ PayeeSet /\ HasVisibleCharacter(last.value)
    /\ DatesEmpty(Before) /\ DatesAreToday(After)
    /\ NewDate(clock) # last.now

\* C10: checkAndSavePayee on a form whose pair is in the table leaves the
\* table and its stored copy unchanged, and an export never raises the number
\* of entries with the pair of a form above one when it was at most one.
C10_ExportNeverDuplicates ==
    /\ \A i \in Indexes :
          Count(payeeDb, formsData[i].payee, formsData[i].bankAccount) >= 1 =>
              LET st == [payeeDb |-> payeeDb, stored |-> storedPayeeDb, saved |-> FALSE]
                  r  == checkAndSavePayee(payeeDb, st, formsData[i])
              IN  r.payeeDb = payeeDb /\ r.stored = storedPayeeDb /\ ~r.saved
    /\ last.op = "export" =>
          \A i \in Indexes :
              Count(last.dbBefore, formsData[i].payee, formsData[i].bankAccount) <= 1 =>
                  /\ Count(payeeDb, formsData[i].payee, formsData[i].bankAccount) <= 1
                  /\ storedPayeeDb.present =>
                        Count(storedPayeeDb.table, formsData[i].payee,
                              formsData[i].bankAccount) <= 1

\* Both forms carried one complete pair that the table lacked, the export
\* ran, and the table holds the pair once.
C10_Witness ==
    /\ last.op = "export"
    /\ Complete(formsData[0])
    /\ formsData[1].payee = formsData[0].payee
    /\ formsData[1].bankAccount = formsData[0].bankAccount
    /\ Complete(formsData[1])
    /\ Count(last.dbBefore, formsData[0].payee, formsData[0].bankAccount) = 0
    /\ Count(payeeDb, formsData[0].payee, formsData[0].bankAccount) = 1

\* Every entry of table a is in table b at the same place.
IsPrefix(a, b) == Len(a) <= Len(b) /\ SubSeq(b, 1, Len(a)) = a

\* C11: a field edit, a payee selection, a copy and a rejected import leave
\* the lookup table and its stored copy as they were, and an export keeps
\* every entry the table had and appends at most one; only an accepted import
\* replaces the table.
C11_OnlyImportReplacesTable ==
    /\ last.op \in {"change", "select", "copy"} =>
          payeeDb = last.dbBefore /\ storedPayeeDb = last.storedBefore
    /\ (last.op = "import" /\ ~importAccepted(last.entry.sheet)) =>
          payeeDb = last.dbBefore /\ storedPayeeDb = last.storedBefore
    /\ (last.op = "import" /\ importAccepted(last.entry.sheet)) =>
          payeeDb = last.entry.sheet /\ storedPayeeDb = Stored(last.entry.sheet)
    /\ last.op = "export" =>
          /\ IsPrefix(last.dbBefore, payeeDb)
          /\ Len(payeeDb) <= Len(last.dbBefore) + 1
          /\ payeeDb # last.dbBefore => storedPayeeDb = Stored(payeeDb)
          /\ payeeDb = last.dbBefore => storedPayeeDb = last.storedBefore

\* An export added a payee to a table that held another one, which is kept.
C11_Witness ==
    /\ last.op = "export"
    /\ Len(last.dbBefore) = 1
    /\ Len(payeeDb) = 2
    /\ payeeDb[1] = last.dbBefore[1]
    /\ payeeDb[2] # payeeDb[1]

\* C12: after a copy form 2 equals form 1 in every field and form 1 is as it
\* was; a field change or a payee selection on one form leaves every field of
\* the other form as it was, also after a copy.
C12_FormsAreIndependent ==
    /\ last.op = "copy" =>
          /\ \A k \in Keys : formsData[1][k] = formsData[0][k]
          /\ formsData[0] = last.before[0]
    /\ last.op \in {"change", "select"} =>
          \A k \in Keys : formsData[1 - last.index][k] = last.before[1 - last.index][k]

\* Form 1 was copied to form 2 and then one of the two was changed: the
\* other still holds the copied values.
C12_Witness ==
    /\ last.op = "change"
    /\ last.before[0] = last.before[1]
    /\ last.before[0].payee # Empty /\ last.before[0].reason # Empty
    /\ formsData[last.index] # last.before[last.index]
    /\ formsData[1 - last.index] = last.before[1 - last.index]

-----------------------------------------------------------------------------
(* Properties of digitUppercase, on the amount text typed so far *)

\* The digits of the integer part of the text, high to low.
IntegerValues(text) ==
    [k \in 1..Len(IntegerDigits(text)) |-> DigitValue(text[k])]

\* The k-th digit after the decimal point of the text, 0 where it has none.
FractionDigit(text, k) ==
    IF HasPoint(text) /\ k <= FractionLen(text)
    THEN DigitValue(text[Len(IntegerDigits(text)) + 1 + k])
    ELSE 0

\* The integer part of the text is zero.
IntegerIsZero(text) == \A k \in 1..Len(IntegerValues(text)) : IntegerValues(text)[k] = 0

\* How often the character occurs in the string.
Occurrences(s, c) == Cardinality({k \in 1..Len(s) : s[k] = c})

\* The characters of the digits 1 to 9.
NonZeroDigitChars == {digit[d + 1] : d \in 1..9}

\* The fractional outputs: a tenths term, a hundredths term, both, or the
\* marker.
FractionTerms ==
    {<<d, "jiao">> : d \in NonZeroDigitChars}
        \cup {<<d, "fen">> : d \in NonZeroDigitChars}
        \cup {<<d, "jiao", e, "fen">> : d \in NonZeroDigitChars, e \in NonZeroDigitChars}

FractionOutputs == FractionTerms \cup {<<"zheng">>}

\* The characters of a fractional output.
FractionChars == {"jiao", "fen", "zheng"}

\* s is an integer-part output, then the main unit, then a fractional output.
IntegerYuanFraction(s) ==
    \E k \in 1..Len(s) :
        /\ s[k] = "yuan"
        /\ k > 1
        /\ \A m \in 1..(k - 1) : s[m] \notin FractionChars \cup {"yuan"}
        /\ SubSeq(s, k + 1, Len(s)) \in FractionOutputs

\* C13 as stated: every amount is written with the main unit, exactly once,
\* between its integer-part output (nothing for a zero integer part of an
\* amount that is not zero) and its fractional output.
C13_YuanExactlyOnce ==
    amount # Empty =>
        /\ Occurrences(words, "yuan") = 1
        /\ \E k \in 1..Len(words) :
              /\ words[k] = "yuan"
              /\ SubSeq(words, k + 1, Len(words)) \in FractionOutputs

\* C13: an amount with a non-zero integer part is written as its
\* integer-part output, the main unit exactly once, and a fractional output
\* or the marker; an amount whose integer part, tenths and hundredths are
\* zero is written as exactly "ling yuan zheng"; an amount with a zero
\* integer part and a non-zero tenths or hundredths digit is written as its
\* fractional output alone, without the main unit.
C13_YuanUnlessOnlyFraction ==
    amount # Empty =>
        /\ ~IntegerIsZero(amount) =>
              Occurrences(words, "yuan") = 1 /\ IntegerYuanFraction(words)
        /\ (/\ IntegerIsZero(amount)
            /\ FractionDigit(amount, 1) = 0
            /\ FractionDigit(amount, 2) = 0) =>
              words = <<"ling", "yuan", "zheng">>
        /\ (/\ IntegerIsZero(amount)
            /\ FractionDigit(amount, 1) # 0 \/ FractionDigit(amount, 2) # 0) =>
              words \in FractionTerms

\* 0.21 was typed and is written without the main unit.
C13_Witness ==
    /\ amount = <<"0", ".", "2", "1">>
    /\ words = <<"er", "jiao", "yi", "fen">>

\* The decimal position of the k-th of these digits (0 for the ones) and the
\* four-digit group it is in (0 for the ones group).
Position(ds, k) == Len(ds) - k

Group(ds, k) == Position(ds, k) \div 4

\* The non-zero digit before the k-th digit, with only zero digits (at least
\* one) between the two; 0 when there is none.
RunStart(ds, k) ==
    LET before == {j \in 1..(k - 2) : ds[j] # 0 /\ \A z \in (j + 1)..(k - 1) : ds[z] = 0}
    IN  IF before = {} THEN 0 ELSE CHOOSE j \in before : TRUE

\* A run of zero digits lies between the k-th digit and the non-zero digit
\* before it.
AfterZeroRun(ds, k) == RunStart(ds, k) # 0

\* Such a run, unless all its zero digits are trailing digits of the group
\* of the non-zero digit before it.
AfterInnerZeroRun(ds, k) ==
    /\ RunStart(ds, k) # 0
    /\ \E z \in (RunStart(ds, k) + 1)..(k - 1) :
          \/ Group(ds, z) # Group(ds, RunStart(ds, k))
          \/ Group(ds, z) = Group(ds, k)

\* The group of the k-th digit has a non-zero digit.
GroupIsNonZero(ds, k) ==
    \E m \in 1..Len(ds) : Group(ds, m) = Group(ds, k) /\ ds[m] # 0

\* What the k-th digit contributes: nothing for a zero digit; the digit's
\* name and positional unit for a non-zero digit, after a zero marker where
\* Marked says so; and after the lowest digit of a group the main unit, or
\* the name of a group that has a non-zero digit.
Piece(ds, k, Marked(_, _)) ==
    (IF ds[k] = 0 THEN Empty
     ELSE (IF Marked(ds, k) THEN <<"ling">> ELSE Empty)
          \o <<digit[ds[k] + 1]>>
          \o Chars(unit[2][(Position(ds, k) % 4) + 1]))
    \o (IF Position(ds, k) % 4 # 0 THEN Empty
        ELSE IF Position(ds, k) = 0 THEN <<"yuan">>
        ELSE IF GroupIsNonZero(ds, k) THEN <<unit[1][Group(ds, k) + 1]>>
        ELSE Empty)

RECURSIVE Flatten(_)
Flatten(pieces) ==
    IF pieces = << >> THEN Empty ELSE Head(pieces) \o Flatten(Tail(pieces))

\* The integer part written digit by digit, high to low.
Written(ds, Marked(_, _)) == Flatten([k \in 1..Len(ds) |-> Piece(ds, k, Marked)])

\* The typed text is a whole amount of 1 or more.
IsWholeAmount(text) == text # Empty /\ ~HasPoint(text) /\ ~IntegerIsZero(text)

\* The runs of zero digits between two non-zero digits.
ZeroRuns(ds) == {k \in 1..Len(ds) : ds[k] # 0 /\ AfterZeroRun(ds, k)}

NoDoubleZero(s) == \A k \in 1..(Len(s) - 1) : ~(s[k] = "ling" /\ s[k + 1] = "ling")

NoZeroBeforeYuan(s) == \A k \in 1..(Len(s) - 1) : ~(s[k] = "ling" /\ s[k + 1] = "yuan")

\* C14 as stated: a whole amount is written with one zero marker for every
\* run of zero digits between two non-zero digits, none for trailing zeros,
\* never two markers in a row and never a marker before the main unit.
C14_EveryZeroRunMarked ==
    IsWholeAmount(amount) =>
        /\ Occurrences(words, "ling") = Cardinality(ZeroRuns(IntegerValues(amount)))
        /\ words = Written(IntegerValues(amount), AfterZeroRun) \o <<"zheng">>
        /\ NoDoubleZero(words)
        /\ NoZeroBeforeYuan(words)

\* C14: a whole amount of 1 or more is written digit by digit, each non-zero
\* digit with its positional unit, with one zero marker for every run of
\* zero digits between two non-zero digits except a run made only of the
\* trailing zero digits of the group of the non-zero digit before it (which
\* gets none, as trailing zeros do); never two markers in a row and never a
\* marker before the main unit.
C14_InnerZeroRunsMarked ==
    IsWholeAmount(amount) =>
        /\ words = Written(IntegerValues(amount), AfterInnerZeroRun) \o <<"zheng">>
        /\ NoDoubleZero(words)
        /\ NoZeroBeforeYuan(words)

\* 102000 was typed: the zero between 1 and 2 ends the second group and is
\* not marked; 1002 was typed: its zeros are marked once.
C14_Witness ==
    \/ /\ amount = <<"1", "0", "2", "0", "0", "0">>
       /\ words = <<"yi", "shi", "wan", "er", "qian", "yuan", "zheng">>
    \/ /\ amount = <<"1", "0", "0", "2">>
       /\ words = <<"yi", "qian", "ling", "er", "yuan", "zheng">>

\* The four-digit group g of these digits (0 for the ones group) has a
\* non-zero digit.
GroupHasNonZero(ds, g) == \E m \in 1..Len(ds) : Group(ds, m) = g /\ ds[m] # 0

\* The places of the character in the string.
Places(s, c) == {k \in 1..Len(s) : s[k] = c}

\* C15: the name of the second group (wan) and of the third group (yi4) is
\* in the output exactly when that group of four digits has a non-zero
\* digit, and then once, the third group's before the second group's and
\* both before the main unit; with a non-zero second group and an all-zero
\* ones group the second group's name stands directly before the main unit;
\* 100000000 is written "yi yi4 yuan zheng".
C15_GroupUnitIffGroupNonZero ==
    amount # Empty =>
        LET ds == IntegerValues(amount)
        IN  /\ Occurrences(words, "wan") = IF GroupHasNonZero(ds, 1) THEN 1 ELSE 0
            /\ Occurrences(words, "yi4") = IF GroupHasNonZero(ds, 2) THEN 1 ELSE 0
            /\ \A a \in Places(words, "yi4") : \A b \in Places(words, "wan") : a < b
            /\ \A a \in Places(words, "yi4") \cup Places(words, "wan") :
                  \A b \in Places(words, "yuan") : a < b
            /\ (GroupHasNonZero(ds, 1) /\ ~GroupHasNonZero(ds, 0)) =>
                  \E k \in Places(words, "wan") : k + 1 \in Places(words, "yuan")
            /\ amount = <<"1", "0", "0", "0", "0", "0", "0", "0", "0">> =>
                  words = <<"yi", "yi4", "yuan", "zheng">>

\* 100000002 was typed: the second group is all zero and its name is not
\* written; or 1200000 was typed and wan stands before yuan.
C15_Witness ==
    \/ /\ amount = <<"1", "0", "0", "0", "0", "0", "0", "0", "2">>
       /\ words = <<"yi", "yi4", "ling", "er", "yuan", "zheng">>
    \/ /\ amount = <<"1", "2", "0", "0", "0", "0", "0">>
       /\ words = <<"yi", "bai", "er", "shi", "wan", "yuan", "zheng">>

\* What follows the main unit in the string, or all of it when it has none.
AfterYuan(s) ==
    IF Places(s, "yuan") = {} THEN s
    ELSE SubSeq(s, (CHOOSE k \in Places(s, "yuan") : TRUE) + 1, Len(s))

\* A non-zero digit d is written as its character and the name of its place;
\* a zero digit is not written.
DigitTerm(d, place) == IF d = 0 THEN Empty ELSE <<digit[d + 1], place>>

\* The fractional output for these tenths and hundredths digits.
FractionFor(tenths, hundredths) ==
    IF tenths = 0 /\ hundredths = 0
    THEN <<"zheng">>
    ELSE DigitTerm(tenths, "jiao") \o DigitTerm(hundredths, "fen")

\* C16: the fractional output is the one of the tenths and the hundredths
\* digit of the amount, whatever its other digits are: each non-zero digit
\* with jiao or fen, nothing for a zero digit, and zheng exactly when both
\* are zero.
C16_FractionFromTenthsAndHundredths ==
    amount # Empty =>
        AfterYuan(words) = FractionFor(FractionDigit(amount, 1), FractionDigit(amount, 2))

-----------------------------------------------------------------------------
(* Properties of the auto-save *)

\* C17: at most one save is pending; once the forms of the mount are
\* rendered, a pending save is one of the current forms, and a change of the
\* forms leaves exactly the save it scheduled pending; every write to the
\* storage key stores the forms that are current when it is made (so the
\* defaults of the first render never replace forms that were loaded); and
\* in the end the stored value stays equal to the forms in memory.
C17_AutoSaveNeverStale ==
    /\ [](Cardinality(timers) <= 1)
    /\ [](phase = "ready" => \A t \in timers : t.forms = formsData)
    /\ [][(phase = "ready" /\ nOps' # nOps) =>
              timers' = {[id |-> timer', forms |-> formsData']} /\ timer' # timer]_vars
    /\ [][storedForms' # storedForms =>
              storedForms' = SavedPair(formsData) /\ formsData' = formsData]_vars
    /\ <>[](storedForms = SavedPair(formsData))

\* Saved forms were loaded at the mount, then edited, and the edited forms
\* have been stored; no save is pending.
C17_Witness ==
    /\ phase = "ready"
    /\ timers = {}
    /\ nOps > 0
    /\ formsData[0].reason = FormA.reason
    /\ formsData # Pair(FormA, FormB)
    /\ storedForms = SavedPair(formsData)

====
